---- MODULE Spec2Model ----
(***************************************************************************)
(* hive-assistant, src/runner.py: the script runner.  One process, one     *)
(* invocation: check argv, load the JSON inputs, load the user script as a *)
(* module, check that it defines a callable run, call run(inputs), check   *)
(* that the result is a dict, dump it as JSON to the output path.  Every   *)
(* adapter-side failure goes through write_error and sys.exit(1).          *)
(***************************************************************************)
EXTENDS Integers, Sequences, FiniteSets, TLC

VARIABLES
    pc,        \* the stage main() is about to run, or "exited"
    argv,      \* sys.argv
    canOpen,   \* whether open(output_path, "w") succeeds (permissions, directory)
    before,    \* the output file as it was before the invocation
    outFile,   \* the output file now
    inputs,    \* main's local `inputs`
    module,    \* main's local `module`
    result,    \* main's local `result`
    exc,       \* the exception the last user-code or I/O step raised
    exitCode,  \* the process exit code, meaningful once pc = "exited"
    stderr,    \* the lines printed to the diagnostic stream
    writes,    \* history: every open(output_path, "w"), with its outcome
    errors,    \* history: every message passed to write_error
    calls,     \* history: every entry into user code ("exec_module", "run")
    trace      \* history: the stages executed, in order

vars == <<pc, argv, canOpen, before, outFile, inputs, module, result, exc,
          exitCode, stderr, writes, errors, calls, trace>>

----------------------------------------------------------------------------
(* Bounds of the model *)

\* integers carried by payloads are 0..MaxInt
MaxInt == 1
\* a dict returned by run holds at most MaxItems items
MaxItems == 2
\* sys.argv holds 1..MaxArgc strings
MaxArgc == 5

\* len(sys.argv) the adapter requires: the program name and three arguments
ArgvLen == 4

----------------------------------------------------------------------------
(* Python values.  Every value is a record tagged with its type name, the  *)
(* string type(v).__name__ gives.  A dict is the sequence of its items in  *)
(* insertion order, with pairwise different keys.                          *)

IntV(i) == [t |-> "int", i |-> i]
StrV(s) == [t |-> "str", s |-> s]
NoneV == [t |-> "NoneType"]
\* an object json has no encoding for; str(obj) is its repr field
ObjV == [t |-> "datetime", repr |-> "2026-01-01 00:00:00"]
ListV(e) == [t |-> "list", e |-> e]
TupleV(e) == [t |-> "tuple", e |-> e]
DictV(kv) == [t |-> "dict", kv |-> kv]
\* a local that has not been assigned
Unset == [t |-> "<unset>"]

TypeName(v) == v.t

\* isinstance(result, dict)
IsDict_Loose(v) == v.t \in {"dict", "list"}
IsDict(v) == v.t = "dict"

Leaves == {IntV(i) : i \in 0..MaxInt} \cup {StrV("a"), NoneV, ObjV}
Containers == {ListV(<<IntV(0)>>), TupleV(<<IntV(0)>>)}
Values == Leaves \cup Containers
Keys == {StrV("y"), StrV("__error"), StrV("1"), IntV(1), TupleV(<<IntV(0)>>)}

Range(s) == {s[i] : i \in DOMAIN s}
DistinctKeys(kv) == \A i, j \in DOMAIN kv : kv[i][1] = kv[j][1] => i = j
Dicts ==
    {DictV(kv) : kv \in {s \in UNION {[1..n -> Keys \X Values] : n \in 0..MaxItems} :
                            DistinctKeys(s)}}
\* what a user's run may return
Results == Dicts \cup Leaves \cup Containers

----------------------------------------------------------------------------
(* JSON documents: the text of a file, as its syntax tree.  An object is   *)
(* the sequence of its members as written, keys are plain strings and may  *)
(* repeat.                                                                 *)

JNum(i) == [j |-> "number", i |-> i]
JStr(s) == [j |-> "string", s |-> s]
JNull == [j |-> "null"]
JArr(e) == [j |-> "array", e |-> e]
JObj(m) == [j |-> "object", m |-> m]

\* json's encoding of a dict key: str as is, int by str(), anything else has none
KeyEncodable(k) == k.t \in {"str", "int", "NoneType"}
EncodeKey(k) ==
    CASE k.t = "str" -> k.s
      [] k.t = "int" -> ToString(k.i)
      [] OTHER -> "null"

\* whether json.dump(v, f, default=dflt) gets through v without a TypeError
RECURSIVE Serializable(_, _)
Serializable(v, dflt) ==
    CASE v.t \in {"int", "str", "NoneType"} -> TRUE
      [] v.t \in {"list", "tuple"} -> \A i \in DOMAIN v.e : Serializable(v.e[i], dflt)
      [] v.t = "dict" ->
            \A i \in DOMAIN v.kv :
                KeyEncodable(v.kv[i][1]) /\ Serializable(v.kv[i][2], dflt)
      [] OTHER -> dflt

\* the document json.dump(v, f, default=str) writes
RECURSIVE Dumps_AllStr(_)
Dumps_AllStr(v) ==
    CASE v.t = "int" -> JStr(ToString(v.i))
      [] v.t = "str" -> JStr(v.s)
      [] v.t = "NoneType" -> JNull
      [] v.t \in {"list", "tuple"} -> JArr([i \in DOMAIN v.e |-> Dumps_AllStr(v.e[i])])
      [] v.t = "dict" ->
            JObj([i \in DOMAIN v.kv |->
                     <<EncodeKey(v.kv[i][1]), Dumps_AllStr(v.kv[i][2])>>])
      [] OTHER -> JStr(v.repr)
RECURSIVE Dumps(_)
Dumps(v) ==
    CASE v.t = "int" -> JNum(v.i)
      [] v.t = "str" -> JStr(v.s)
      [] v.t = "NoneType" -> JNull
      [] v.t \in {"list", "tuple"} -> JArr([i \in DOMAIN v.e |-> Dumps(v.e[i])])
      [] v.t = "dict" ->
            JObj([i \in DOMAIN v.kv |-> <<EncodeKey(v.kv[i][1]), Dumps(v.kv[i][2])>>])
      [] OTHER -> JStr(v.repr)

\* d[k] = v on the item sequence of a dict
Put(kv, k, v) ==
    IF \E i \in DOMAIN kv : kv[i][1] = k
        THEN [i \in DOMAIN kv |-> IF kv[i][1] = k THEN <<k, v>> ELSE kv[i]]
        ELSE Append(kv, <<k, v>>)

\* json.load: the Python value of a document (an object's repeated key keeps
\* its last value)
RECURSIVE Loads(_)
RECURSIVE LoadMembers(_, _)
LoadMembers(m, n) ==
    IF n = 0 THEN <<>>
    ELSE Put(LoadMembers(m, n - 1), StrV(m[n][1]), Loads(m[n][2]))
Loads(d) ==
    CASE d.j = "number" -> IntV(d.i)
      [] d.j = "string" -> StrV(d.s)
      [] d.j = "null" -> NoneV
      [] d.j = "array" -> ListV([i \in DOMAIN d.e |-> Loads(d.e[i])])
      [] OTHER -> DictV(LoadMembers(d.m, Len(d.m)))

----------------------------------------------------------------------------
(* The files and the user script: what the invocation finds on disk.       *)

\* the output file: absent, holding what an earlier process left, cut short
\* by a failed write, or holding a complete JSON document
Absent == [kind |-> "absent"]
Old == [kind |-> "old"]
Partial == [kind |-> "partial"]
Json(doc) == [kind |-> "json", doc |-> doc]

ScriptPaths == {"script.py", "script"}
\* sys.argv of n strings
Argv(n, script) ==
    [i \in 1..n |->
        CASE i = 1 -> "runner.py"
          [] i = 2 -> script
          [] i = 3 -> "in.json"
          [] i = 4 -> "out.json"
          [] OTHER -> "extra"]

\* exceptions: the class, whether it derives from Exception, str(e), and for
\* SystemExit the exit code
Exc(cls, isExc, msg) == [cls |-> cls, isException |-> isExc, msg |-> msg, code |-> 0]
SysExit(code) == [cls |-> "SystemExit", isException |-> FALSE, msg |-> "", code |-> code]
NoExc == Exc("<none>", FALSE, "")

\* opening and parsing the input file
InputDocs == {JObj(<<>>), JObj(<< <<"x", JNum(1)>> >>), JArr(<<JNum(0)>>)}
InputOutcomes ==
    {[ok |-> TRUE, doc |-> d, exc |-> NoExc] : d \in InputDocs}
    \cup {[ok |-> FALSE, doc |-> JNull, exc |-> e] :
            e \in {Exc("FileNotFoundError", TRUE, "[Errno 2] No such file or directory"),
                   Exc("JSONDecodeError", TRUE, "Expecting value: line 1 column 1 (char 0)")}}

\* what the user's code can raise: an Exception, sys.exit(code), or another
\* BaseException that is not an Exception
UserExceptions ==
    {Exc("ValueError", TRUE, "bad"), Exc("ValueError", TRUE, ""),
     SysExit(0), SysExit(1), Exc("GeneratorExit", FALSE, "")}

\* the module's run attribute after its top-level code ran
RunAttrs == {"absent", "noncallable", "function"}
\* exec_module: the top-level code raises, or leaves a module namespace
TopLevelOutcomes ==
    {[ok |-> TRUE, run |-> r, exc |-> NoExc] : r \in RunAttrs}
    \cup {[ok |-> FALSE, run |-> "absent", exc |-> e] :
            e \in UserExceptions \cup {Exc("SyntaxError", TRUE, "invalid syntax")}}

\* module.run(inputs): a function returns or raises; without a callable run the
\* call expression itself raises
RunOutcomes(m, inp) ==
    CASE m.run = "function" ->
            {[ok |-> TRUE, val |-> v, exc |-> NoExc] : v \in Results \cup {inp}}
            \cup {[ok |-> FALSE, val |-> Unset, exc |-> e] : e \in UserExceptions}
      [] m.run = "noncallable" ->
            {[ok |-> FALSE, val |-> Unset,
              exc |-> Exc("TypeError", TRUE, "object is not callable")]}
      [] OTHER ->
            {[ok |-> FALSE, val |-> Unset,
              exc |-> Exc("AttributeError", TRUE, "module has no attribute run")]}

----------------------------------------------------------------------------
(* The adapter's messages *)

\* the backquote character, which a TLA+ string cannot hold: its escape
Backquote == "\\x60"
Traceback == "Traceback (most recent call last): ..."
UsageLine == "Usage: runner.py <script_path> <input_path> <output_path>"

PrefixReadInputs == "Failed to read inputs: "
PrefixCannotLoad == "Cannot load script: "
PrefixLoadFailed == "Failed to load script: "
PrefixScriptError == "Script error: "
PrefixNotDict == "run() must return a dict, got "
PrefixWriteFailed == "Failed to write output: "

MsgReadInputs(e) == PrefixReadInputs \o e.msg
MsgCannotLoad(path) == PrefixCannotLoad \o path
MsgLoadFailed(e) == PrefixLoadFailed \o e.msg \o "\n" \o Traceback
MsgNoRun ==
    "Script must define a callable " \o Backquote \o "run(inputs)" \o Backquote
        \o " function"
MsgScriptError_WrongPrefix(e) == PrefixLoadFailed \o e.msg \o "\n" \o Traceback
MsgScriptError(e) == PrefixScriptError \o e.msg \o "\n" \o Traceback
MsgNotDict(v) == PrefixNotDict \o TypeName(v)
MsgWriteFailed(e) == PrefixWriteFailed \o e.msg

StartsWith(s, p) == Len(s) >= Len(p) /\ SubSeq(s, 1, Len(p)) = p

----------------------------------------------------------------------------
(* Writing the output file *)

\* with open(output_path, "w") as f: json.dump(v, f, default=...), where ioOk
\* says whether the device takes the bytes.  open truncates; a dump that fails
\* leaves the file cut short.
TryWrite(file, v, dflt, ioOk) ==
    CASE ~canOpen ->
            [ok |-> FALSE, file |-> file,
             exc |-> Exc("PermissionError", TRUE, "[Errno 13] Permission denied")]
      [] canOpen /\ ~Serializable(v, dflt) ->
            [ok |-> FALSE, file |-> Partial,
             exc |-> Exc("TypeError", TRUE,
                         "keys must be str, int, float, bool or None, not tuple")]
      [] canOpen /\ Serializable(v, dflt) /\ ~ioOk ->
            [ok |-> FALSE, file |-> Partial,
             exc |-> Exc("OSError", TRUE, "[Errno 28] No space left on device")]
      [] OTHER -> [ok |-> TRUE, file |-> Json(Dumps(v)), exc |-> NoExc]

WriteRecord(what, r, ioOk) == [what |-> what, ok |-> r.ok, ioOk |-> ioOk]

ErrorObj(message) == DictV(<< <<StrV("__error"), StrV(message)>> >>)

\* write_error(output_path, message) on the file as it is now, then sys.exit(1)
write_error_exit(file, ws, message, ioOk) ==
    LET r == TryWrite(file, ErrorObj(message), FALSE, ioOk) IN
    /\ outFile' = r.file
    /\ writes' = Append(ws, WriteRecord("error", r, ioOk))
    /\ errors' = Append(errors, message)
    /\ stderr' = IF r.ok THEN stderr ELSE Append(stderr, message)
    /\ exitCode' = 1
    /\ pc' = "exited"

\* an exception no handler of main catches: SystemExit ends the process with its
\* code, anything else with a traceback on the diagnostic stream and code 1
uncaught_exit(e) ==
    /\ stderr' = IF e.cls = "SystemExit" THEN stderr ELSE Append(stderr, Traceback)
    /\ exitCode' = IF e.cls = "SystemExit" THEN e.code ELSE 1
    /\ pc' = "exited"
    /\ UNCHANGED <<outFile, writes, errors>>

\* except Exception as e
CaughtByExcept(e) == e.isException

----------------------------------------------------------------------------
(* main() *)

Init ==
    /\ pc = "args"
    /\ argv \in {Argv(n, s) : n \in 1..MaxArgc, s \in ScriptPaths}
    /\ canOpen \in BOOLEAN
    /\ before \in {Absent, Old}
    /\ outFile = before
    /\ inputs = Unset
    /\ module = Unset
    /\ result = Unset
    /\ exc = NoExc
    /\ exitCode = 0
    /\ stderr = <<>>
    /\ writes = <<>>
    /\ errors = <<>>
    /\ calls = <<>>
    /\ trace = <<>>

\* len(sys.argv) != 4
ArgCountOk_AtLeast(a) == Len(a) >= ArgvLen
ArgCountOk(a) == Len(a) = ArgvLen

CheckArgs ==
    /\ pc = "args"
    /\ trace' = Append(trace, "args")
    /\ IF ArgCountOk(argv)
        THEN /\ pc' = "load_inputs"
             /\ UNCHANGED <<exitCode, stderr>>
        ELSE /\ stderr' = Append(stderr, UsageLine)
             /\ exitCode' = 1
             /\ pc' = "exited"
    /\ UNCHANGED <<argv, canOpen, before, outFile, inputs, module, result, exc,
                   writes, errors, calls>>

LoadInputs ==
    /\ pc = "load_inputs"
    /\ trace' = Append(trace, "load_inputs")
    /\ \E o \in InputOutcomes, ioOk \in BOOLEAN :
        /\ exc' = o.exc
        /\ IF o.ok
            THEN /\ inputs' = Loads(o.doc)
                 /\ pc' = "load_script"
                 /\ UNCHANGED <<outFile, writes, errors, stderr, exitCode>>
            ELSE /\ write_error_exit(outFile, writes, MsgReadInputs(o.exc), ioOk)
                 /\ UNCHANGED inputs
    /\ UNCHANGED <<argv, canOpen, before, module, result, calls>>

\* spec_from_file_location gives a spec with a loader for a recognised suffix
HasLoader(path) == Len(path) >= 3 /\ SubSeq(path, Len(path) - 2, Len(path)) = ".py"

LoadScript ==
    /\ pc = "load_script"
    /\ trace' = Append(trace, "load_script")
    /\ IF ~HasLoader(argv[2])
        THEN /\ \E ioOk \in BOOLEAN :
                    write_error_exit(outFile, writes, MsgCannotLoad(argv[2]), ioOk)
             /\ UNCHANGED <<module, exc, calls>>
        ELSE /\ calls' = Append(calls, "exec_module")
             /\ \E o \in TopLevelOutcomes, ioOk \in BOOLEAN :
                    /\ exc' = o.exc
                    /\ IF o.ok
                        THEN /\ module' = [run |-> o.run]
                             /\ pc' = "check_run"
                             /\ UNCHANGED <<outFile, writes, errors, stderr, exitCode>>
                        ELSE /\ UNCHANGED module
                             /\ IF CaughtByExcept(o.exc)
                                 THEN write_error_exit(outFile, writes,
                                                       MsgLoadFailed(o.exc), ioOk)
                                 ELSE uncaught_exit(o.exc)
    /\ UNCHANGED <<argv, canOpen, before, inputs, result>>

\* hasattr(module, "run") and callable(module.run)
HasCallableRun_NoCallableCheck(m) == m.run # "absent"
HasCallableRun(m) == m.run = "function"

CheckRun ==
    /\ pc = "check_run"
    /\ trace' = Append(trace, "check_run")
    /\ IF HasCallableRun(module)
        THEN /\ pc' = "execute"
             /\ UNCHANGED <<outFile, writes, errors, stderr, exitCode>>
        ELSE \E ioOk \in BOOLEAN : write_error_exit(outFile, writes, MsgNoRun, ioOk)
    /\ UNCHANGED <<argv, canOpen, before, inputs, module, result, exc, calls>>

Execute ==
    /\ pc = "execute"
    /\ trace' = Append(trace, "execute")
    /\ calls' = IF module.run = "function" THEN Append(calls, "run") ELSE calls
    /\ \E o \in RunOutcomes(module, inputs), ioOk \in BOOLEAN :
        /\ exc' = o.exc
        /\ IF o.ok
            THEN /\ result' = o.val
                 /\ pc' = "validate"
                 /\ UNCHANGED <<outFile, writes, errors, stderr, exitCode>>
            ELSE /\ UNCHANGED result
                 /\ IF CaughtByExcept(o.exc)
                     THEN write_error_exit(outFile, writes, MsgScriptError(o.exc), ioOk)
                     ELSE uncaught_exit(o.exc)
    /\ UNCHANGED <<argv, canOpen, before, inputs, module>>

Validate ==
    /\ pc = "validate"
    /\ trace' = Append(trace, "validate")
    /\ IF IsDict(result)
        THEN /\ pc' = "write_output"
             /\ UNCHANGED <<outFile, writes, errors, stderr, exitCode>>
        ELSE \E ioOk \in BOOLEAN :
                write_error_exit(outFile, writes, MsgNotDict(result), ioOk)
    /\ UNCHANGED <<argv, canOpen, before, inputs, module, result, exc, calls>>

WriteOutput ==
    /\ pc = "write_output"
    /\ trace' = Append(trace, "write_output")
    /\ \E ioOk \in BOOLEAN, ioOk2 \in BOOLEAN :
        LET r == TryWrite(outFile, result, TRUE, ioOk) IN
        /\ exc' = r.exc
        /\ IF r.ok
            THEN /\ outFile' = r.file
                 /\ writes' = Append(writes, WriteRecord("result", r, ioOk))
                 /\ exitCode' = 0
                 /\ pc' = "exited"
                 /\ UNCHANGED <<errors, stderr>>
            ELSE write_error_exit(r.file,
                                  Append(writes, WriteRecord("result", r, ioOk)),
                                  MsgWriteFailed(r.exc), ioOk2)
    /\ UNCHANGED <<argv, canOpen, before, inputs, module, result, calls>>

Next ==
    \/ CheckArgs
    \/ LoadInputs
    \/ LoadScript
    \/ CheckRun
    \/ Execute
    \/ Validate
    \/ WriteOutput

Spec == Init /\ [][Next]_vars

----------------------------------------------------------------------------
(* Vocabulary of the properties *)

Exited == pc = "exited"
ThreeArgs == Len(argv) = ArgvLen
\* the output path can be opened and the device took every byte written to it
NoIoFault == canOpen /\ \A i \in DOMAIN writes : writes[i].ioOk
Last(s) == s[Len(s)]

\* the file holds a complete JSON object with a top-level __error member
IsErrorFile(f) ==
    /\ f.kind = "json"
    /\ f.doc.j = "object"
    /\ \E i \in DOMAIN f.doc.m : f.doc.m[i][1] = "__error"
\* the file is exactly {"__error": message}
ErrorFile(message) == Json(JObj(<< <<"__error", JStr(message)>> >>))

\* a JSON value: what json.load can give back
RECURSIVE IsJson(_)
IsJson(v) ==
    CASE v.t \in {"int", "str", "NoneType"} -> TRUE
      [] v.t = "list" -> \A i \in DOMAIN v.e : IsJson(v.e[i])
      [] v.t = "dict" -> \A i \in DOMAIN v.kv : v.kv[i][1].t = "str" /\ IsJson(v.kv[i][2])
      [] OTHER -> FALSE
IsJsonObject(v) == v.t = "dict" /\ IsJson(v)

\* the loaded script has no run attribute, or one that is not callable
NoRun == module # Unset /\ module.run \in {"absent", "noncallable"}
\* run was called and raised
RunRaised == Exited /\ trace # <<>> /\ Last(trace) = "execute" /\ "run" \in Range(calls)
\* run returned a value that is not a dict
NonDictReturned == result # Unset /\ result.t # "dict"

StageOrder ==
    <<"args", "load_inputs", "load_script", "check_run", "execute", "validate",
      "write_output">>
StagePrefixes(stage) ==
    CASE stage = "load_inputs" -> {"Failed to read inputs:"}
      [] stage = "load_script" -> {"Cannot load script:", "Failed to load script:"}
      [] stage = "check_run" -> {"Script must define a callable"}
      [] stage = "execute" -> {"Script error:"}
      [] stage = "validate" -> {"run() must return a dict, got "}
      [] stage = "write_output" -> {"Failed to write output:"}
      [] OTHER -> {}

----------------------------------------------------------------------------
(* C1: three arguments, a valid JSON input file, a script that loads and    *)
(* whose run returns a JSON object V, and a writable output path: the       *)
(* process exits 0 and the output file, read back as JSON, is V.            *)
C1_JsonObjectRoundTrips ==
    (Exited /\ ThreeArgs /\ inputs # Unset /\ module # Unset /\ result # Unset
        /\ IsJsonObject(result) /\ NoIoFault)
    => (exitCode = 0 /\ outFile.kind = "json" /\ Loads(outFile.doc) = result)

C1_Witness ==
    /\ Exited /\ exitCode = 0 /\ NoIoFault
    /\ result = DictV(<< <<StrV("y"), IntV(1)>>, <<StrV("1"), ListV(<<IntV(0)>>)>> >>)
    /\ outFile = Json(JObj(<< <<"y", JNum(1)>>, <<"1", JArr(<<JNum(0)>>)>> >>))

(* C2, for an output path that takes every write: a process that exited 1   *)
(* either had an argument count other than three and left the output file   *)
(* as it was, or left an output file holding an __error object.             *)
C2_ExitOneLeavesErrorFile ==
    (Exited /\ exitCode = 1 /\ NoIoFault)
    => ((~ThreeArgs /\ outFile = before) \/ IsErrorFile(outFile))

(* C3, for an output path that takes every write: a process that exited 0   *)
(* wrote the value run returned to the output file.                         *)
C3_ExitZeroWroteResult ==
    (Exited /\ exitCode = 0 /\ NoIoFault)
    => (result # Unset /\ writes # <<>> /\ Last(writes).what = "result"
        /\ outFile = Json(Dumps(result)))

(* C4: with an argument count other than three nothing but the usage line   *)
(* happens: the output file stays as it was, nothing is opened for writing, *)
(* no input is read, no script is loaded, and the process exits 1 with the  *)
(* usage line alone on the diagnostic stream.                               *)
C4_UsageErrorTouchesNothing ==
    ~ThreeArgs
    => /\ outFile = before /\ writes = <<>> /\ errors = <<>>
       /\ inputs = Unset /\ module = Unset /\ calls = <<>>
       /\ pc \in {"args", "exited"}
       /\ Exited => (exitCode = 1 /\ stderr = <<UsageLine>> /\ trace = <<"args">>)

C4_Witness ==
    Exited /\ Len(argv) > ArgvLen /\ before = Old /\ canOpen /\ stderr = <<UsageLine>>

(* C5, for an output path that takes every write: when run raises, the      *)
(* process exits 1 and the output file holds an __error object whose        *)
(* message starts with "Script error:".                                     *)
C5_RunFailureCaught ==
    (RunRaised /\ NoIoFault)
    => /\ exitCode = 1
       /\ IsErrorFile(outFile)
       /\ StartsWith(outFile.doc.m[1][2].s, "Script error:")

(* C6 as stated, for an output path that takes every write: without a       *)
(* callable run nothing of the script is called, the output file is exactly *)
(* {"__error": "Script must define a callable run(inputs) function"} and    *)
(* the process exits 1.                                                     *)
C6_Original ==
    (Exited /\ NoRun /\ NoIoFault)
    => /\ "run" \notin Range(calls)
       /\ exitCode = 1
       /\ outFile = ErrorFile("Script must define a callable run(inputs) function")

(* C6 as amended: without a callable run, run is never called, the process  *)
(* exits 1 and the one message reported is MsgNoRun, which sets run(inputs) *)
(* between backquotes; the output file is exactly {"__error": MsgNoRun}     *)
(* when the write succeeds, and otherwise the message is printed to the     *)
(* diagnostic stream and the file is left as it was or cut short.           *)
C6_NoRunReported ==
    (Exited /\ NoRun)
    => /\ "run" \notin Range(calls)
       /\ exitCode = 1
       /\ errors = <<MsgNoRun>>
       /\ Len(writes) = 1 /\ writes[1].what = "error"
       /\ IF writes[1].ok
            THEN outFile = ErrorFile(MsgNoRun) /\ stderr = <<>>
            ELSE outFile \in {before, Partial} /\ stderr = <<MsgNoRun>>

C6_Witness ==
    /\ Exited /\ NoRun /\ module.run = "noncallable"
    /\ outFile = ErrorFile(MsgNoRun)

(* C7 as stated: when run returns a non-dict the process exits 1 and the    *)
(* output file is {"__error": "run() must return a dict, got <type>"}, and  *)
(* any output file the adapter leaves holds a JSON object.                  *)
C7_Original ==
    /\ outFile.kind = "json" => outFile.doc.j = "object"
    /\ (Exited /\ NonDictReturned)
        => /\ exitCode = 1
           /\ outFile = ErrorFile("run() must return a dict, got " \o result.t)

(* C7 as amended: when run returns a non-dict the result is never written,  *)
(* the process exits 1 and the one message reported is "run() must return a *)
(* dict, got <type>"; the output file is exactly that __error object when   *)
(* the write succeeds, and otherwise the message is printed to the          *)
(* diagnostic stream and the file is left as it was or cut short.  Every    *)
(* complete document the adapter writes is a JSON object.                   *)
C7_NonDictRejected ==
    /\ outFile.kind = "json" => outFile.doc.j = "object"
    /\ (Exited /\ NonDictReturned)
        => /\ exitCode = 1
           /\ errors = <<"run() must return a dict, got " \o result.t>>
           /\ Len(writes) = 1 /\ writes[1].what = "error"
           /\ IF writes[1].ok
                THEN outFile = ErrorFile(errors[1]) /\ stderr = <<>>
                ELSE outFile \in {before, Partial} /\ stderr = errors

C7_Witness ==
    /\ Exited /\ result = ListV(<<IntV(0)>>)
    /\ outFile = ErrorFile("run() must return a dict, got list")

(* C8: a three-argument invocation has opened the output path for writing   *)
(* exactly once when it exits, any other invocation never.                  *)
C8_ExactlyOneWrite ==
    Exited => Len(writes) = (IF ThreeArgs THEN 1 ELSE 0)

(* C9: an output file with a top-level __error key is left only by an       *)
(* invocation that exits 1.                                                 *)
C9_ErrorKeyOnlyOnFailure ==
    (Exited /\ ThreeArgs /\ IsErrorFile(outFile)) => exitCode = 1

(* C10: the stages run once each in the fixed order; an error message is    *)
(* reported at most once, by the stage that ran last, with that stage's     *)
(* prefix, and ends the process with code 1; the script's top-level code    *)
(* runs only after the inputs were loaded, and run is called at most once,  *)
(* only after the inputs and the module were loaded and run was found       *)
(* callable.                                                                *)
C10_StrictPipeline ==
    /\ Len(trace) <= Len(StageOrder)
    /\ trace = SubSeq(StageOrder, 1, Len(trace))
    /\ ~Exited => (Len(trace) < Len(StageOrder) /\ pc = StageOrder[Len(trace) + 1]
                    /\ errors = <<>>)
    /\ Len(errors) <= 1
    /\ errors # <<>>
        => /\ Exited /\ exitCode = 1
           /\ \E p \in StagePrefixes(Last(trace)) : StartsWith(errors[1], p)
    /\ calls \in {<<>>, <<"exec_module">>, <<"exec_module", "run">>}
    /\ calls # <<>> => (inputs # Unset /\ Len(trace) >= 3)
    /\ "run" \in Range(calls)
        => (inputs # Unset /\ module # Unset /\ module.run = "function"
            /\ Len(trace) >= 5)

C10_Witness ==
    /\ Exited /\ trace = StageOrder
    /\ errors # <<>> /\ StartsWith(errors[1], "Failed to write output:")
    /\ calls = <<"exec_module", "run">>

====
